---- MODULE Spec2Model ----
(***************************************************************************)
(* Model of zotero-substack-fix: the URL normaliser (clean_url), the site  *)
(* classifier (is_substack_note_url, check_if_substack), the structured    *)
(* data extractor (extract_metadata), the record reconciler                *)
(* (prepare_*_item_update, validate_item_fields) and the per-record        *)
(* pipeline (process_item) of src/src/main.py.                             *)
(*                                                                         *)
(* Strings are sequences of atoms.  An atom is a chunk of text that the    *)
(* code never looks inside of: a separator character ("?", "&", "=", "#"), *)
(* a percent escape ("%26"), a host label, a path segment or a whole word. *)
(* The text of a string is the concatenation of its atoms, and no atom's   *)
(* text contains the text of another atom the code searches for, so a      *)
(* substring search of the code is a search for a run of atoms.            *)
(***************************************************************************)
EXTENDS Integers, Sequences, FiniteSets, TLC

VARIABLES
    pc,       \* position of the driver of the specification at hand
    url,      \* clean_url: the input URL
    out,      \* clean_url(url)
    out2,     \* clean_url(clean_url(url))
    item,     \* the caller's record: [data |-> dict]
    page,     \* what download_page returns for the record's URL
    md,       \* the metadata dict handed to prepare_*_item_update
    flags,    \* [force, exclude_substack, exclude_linkedin] of the last call
    ret,      \* the value returned by the last call
    orig,     \* the record's data as it was when the last call began
    stats,    \* the global stats dict of main.py
    fetched,  \* number of download_page calls made by the last call
    pass,     \* number of process_item calls made so far
    zot,            \* the record store: the records of each item type, in order
    opts,           \* [dry_run, confirm] of the batch run, and the user's answer
    start,          \* analyze_zotero_library: the paging offset
    web_items,      \* analyze_zotero_library: the records retrieved
    updates,        \* analyze_zotero_library: every changed record
    batch_updates,  \* analyze_zotero_library: the flush buffer
    calls,          \* the zot.update_items calls made: [batch, ok]
    ws,             \* ZoteroStreamHandler.ws: None or a connection
    connected,      \* ZoteroStreamHandler.connected
    retry_delay,    \* ZoteroStreamHandler.retry_delay, in seconds: [whole, frac]
    topics,         \* ZoteroStreamHandler.topics
    tries,          \* failed tries of the connect() call under way
    log,            \* what the handler did since the last fault of a receive
    slept,          \* the duration of the last asyncio.sleep of run()
    advised,        \* the last handshake message that said "connected"
    faults,         \* faults the environment has raised so far
    msgs,           \* messages the server has sent to process_updates so far
    session,        \* the connection ws refers to: [open, handshake, ack]
    event,          \* the last message process_updates received
    reads,          \* zot.items calls of process_updates so far
    writes,         \* zot.update_item calls of process_updates so far: [key, ok]
    reached         \* records of the window the loop came to, last notification

batchVars == <<zot, opts, start, web_items, updates, batch_updates, calls>>

streamVars == <<ws, connected, retry_delay, topics, tries, log, slept, advised, faults, msgs,
                session, event, reads, writes, reached>>

vars == <<pc, url, out, out2, item, page, md, flags, ret, orig, stats, fetched, pass,
          batchVars, streamVars>>

(***************************************************************************)
(* Bounds.                                                                 *)
(***************************************************************************)
MaxTail == 4    \* atoms that follow the scheme, host and path of an input URL
MaxPasses == 2  \* process_item calls on one record
MaxWords == 25  \* words in the body text of a node
MaxFaults == 2  \* faults the environment raises in one streaming run
MaxMsgs == 2    \* messages the server sends in one streaming run
MaxNodes == 3   \* top-level nodes of a structured-data graph

(***************************************************************************)
(* Generic sequence helpers.                                               *)
(***************************************************************************)
None == "None"

IndexOf(s, a) ==
    IF \E i \in 1..Len(s) : s[i] = a
    THEN CHOOSE i \in 1..Len(s) : s[i] = a /\ \A j \in 1..(i - 1) : s[j] # a
    ELSE 0

Take(s, n) == SubSeq(s, 1, n)

Drop(s, n) == SubSeq(s, n + 1, Len(s))

Range(s) == {s[i] : i \in 1..Len(s)}

RECURSIVE SplitOn(_, _)
SplitOn(s, sep) ==
    LET i == IndexOf(s, sep)
    IN  IF i = 0 THEN <<s>> ELSE <<Take(s, i - 1)>> \o SplitOn(Drop(s, i), sep)

RECURSIVE JoinWith(_, _)
JoinWith(ss, sep) ==
    IF ss = <<>> THEN <<>>
    ELSE IF Len(ss) = 1 THEN ss[1]
    ELSE ss[1] \o sep \o JoinWith(Tail(ss), sep)

RECURSIVE SeqsUpTo(_, _)
SeqsUpTo(S, n) ==
    IF n = 0 THEN {<<>>}
    ELSE LET shorter == SeqsUpTo(S, n - 1)
         IN  shorter \cup {Append(s, a) : s \in {t \in shorter : Len(t) = n - 1}, a \in S}

(***************************************************************************)
(* str.lower() on atoms.                                                   *)
(***************************************************************************)
LowerAtom(a) ==
    CASE a = "R" -> "r"
      [] a = "eType" -> "etype"
      [] a = "HTTPS://" -> "https://"
      [] a = "Substack.com" -> "substack.com"
      [] a = "LinkedIn.com" -> "linkedin.com"
      [] OTHER -> a

Lower(s) == [i \in 1..Len(s) |-> LowerAtom(s[i])]

(***************************************************************************)
(* urllib.parse as clean_url uses it.                                      *)
(***************************************************************************)
SchemeAtoms == {"https://", "HTTPS://"}

\* atoms whose text starts with "/"
PathAtoms == {"/p", "/p/slug", "/p/", "/notes/", "/@", "/note/", "/p/comments/",
              "/profile/", "/feed/update/", "/posts/", "/"}

\* urlparse: scheme (lower-cased), netloc up to the first of / ? #, then the
\* fragment after the first "#", then the query after the first "?".
\* ok is FALSE where urlsplit raises ValueError("Invalid IPv6 URL").
urlparse(u) ==
    LET hasScheme == u # <<>> /\ Head(u) \in SchemeAtoms
        rest == IF hasScheme THEN Tail(u) ELSE u
        h == IndexOf(rest, "#")
        pre == IF h = 0 THEN rest ELSE Take(rest, h - 1)
        frag == IF h = 0 THEN <<>> ELSE Drop(rest, h)
        q == IndexOf(pre, "?")
        loc == IF q = 0 THEN pre ELSE Take(pre, q - 1)
        qry == IF q = 0 THEN <<>> ELSE Drop(pre, q)
        slash == IF \E i \in 1..Len(loc) : loc[i] \in PathAtoms
                 THEN CHOOSE i \in 1..Len(loc) :
                        loc[i] \in PathAtoms /\ \A j \in 1..(i - 1) : loc[j] \notin PathAtoms
                 ELSE Len(loc) + 1
        net == IF hasScheme THEN Take(loc, slash - 1) ELSE <<>>
        pth == IF hasScheme THEN Drop(loc, slash - 1) ELSE loc
    IN  [ok |-> ~(("[" \in Range(net) /\ "]" \notin Range(net))
                  \/ ("]" \in Range(net) /\ "[" \notin Range(net))),
         scheme |-> IF hasScheme THEN <<LowerAtom(Head(u))>> ELSE <<>>,
         netloc |-> net, path |-> pth, query |-> qry, fragment |-> frag]

\* urlunparse: an empty query or fragment is left out together with its
\* separator.
urlunparse(p) ==
    p.scheme \o p.netloc \o p.path
      \o (IF p.query # <<>> THEN <<"?">> \o p.query ELSE <<>>)
      \o (IF p.fragment # <<>> THEN <<"#">> \o p.fragment ELSE <<>>)

\* unquote(s.replace("+", " ")) on one atom
UnquoteAtom(a) ==
    CASE a = "+" -> " "
      [] a = "%26" -> "&"
      [] a = "%3D" -> "="
      [] a = "%3F" -> "?"
      [] a = "%23" -> "#"
      [] a = "%72" -> "r"
      [] OTHER -> a

unquote(s) == [i \in 1..Len(s) |-> UnquoteAtom(s[i])]

\* quote_plus on one atom
QuoteAtom(a) ==
    CASE a = " " -> "+"
      [] a = "&" -> "%26"
      [] a = "=" -> "%3D"
      [] a = "?" -> "%3F"
      [] a = "#" -> "%23"
      [] OTHER -> a

quote_plus(s) == [i \in 1..Len(s) |-> QuoteAtom(s[i])]

\* parse_qsl(qs, keep_blank_values=True): the (name, value) pairs in order;
\* an empty name_value is skipped, a name_value without "=" has value "".
NameValue(nv) ==
    LET i == IndexOf(nv, "=")
    IN  IF i = 0 THEN [k |-> unquote(nv), v |-> <<>>]
        ELSE [k |-> unquote(Take(nv, i - 1)), v |-> unquote(Drop(nv, i))]

NonEmpty(s) == s # <<>>

parse_qsl(qs) ==
    LET fields == SelectSeq(SplitOn(qs, "&"), NonEmpty)
    IN  [i \in 1..Len(fields) |-> NameValue(fields[i])]

\* parse_qs: a dict in insertion order, name |-> list of that name's values
RECURSIVE DictOfPairs(_, _)
DictOfPairs(pairs, d) ==
    IF pairs = <<>> THEN d
    ELSE LET p == Head(pairs)
             at == IF \E i \in 1..Len(d) : d[i].k = p.k
                   THEN CHOOSE i \in 1..Len(d) : d[i].k = p.k ELSE 0
         IN  DictOfPairs(Tail(pairs),
                IF at = 0 THEN Append(d, [k |-> p.k, v |-> <<p.v>>])
                ELSE [d EXCEPT ![at].v = Append(@, p.v)])

parse_qs(qs) == DictOfPairs(parse_qsl(qs), <<>>)

\* urlencode(d, doseq=True)
EncodeEntry(e) ==
    JoinWith([i \in 1..Len(e.v) |-> quote_plus(e.k) \o <<"=">> \o quote_plus(e.v[i])],
             <<"&">>)

urlencode(d) == JoinWith([i \in 1..Len(d) |-> EncodeEntry(d[i])], <<"&">>)

(***************************************************************************)
(* clean_url                                                               *)
(***************************************************************************)
remove_params ==
    {<<"utm_source">>, <<"utm_medium">>, <<"utm_campaign">>, <<"utm_term">>,
     <<"utm_content">>, <<"source">>, <<"ref">>, <<"referral">>, <<"eType">>,
     <<"mc_cid">>, <<"mc_eid">>, <<"fbclid">>, <<"ref_src">>, <<"ref_url">>,
     <<"_hsenc">>, <<"_hsmi">>, <<"hs_preview">>, <<"preview">>, <<"r">>, <<"s">>,
     <<"gclid">>, <<"ocid">>, <<"msclkid">>, <<"dclid">>, <<"igshid">>}

\* k.lower() not in remove_params
KeptParam(e) == Lower(e.k) \notin remove_params

clean_url(u) ==
    LET parsed == urlparse(u)
        params == parse_qs(parsed.query)
        cleaned_params == SelectSeq(params, KeptParam)
        cleaned == [parsed EXCEPT !.query = urlencode(cleaned_params)]
        cleaned_url == urlunparse(cleaned)
    IN  IF ~parsed.ok THEN u
        ELSE IF cleaned_url # <<>> /\ cleaned_url[Len(cleaned_url)] = "?"
             THEN Take(cleaned_url, Len(cleaned_url) - 1)
             ELSE cleaned_url

(***************************************************************************)
(* Python dicts: functions from the keys that are present.                 *)
(***************************************************************************)
Has(d, k) == k \in DOMAIN d

Get(d, k, default) == IF k \in DOMAIN d THEN d[k] ELSE default

Put(d, k, v) == [x \in (DOMAIN d) \cup {k} |-> IF x = k THEN v ELSE d[x]]

Del(d, k) == [x \in (DOMAIN d) \ {k} |-> d[x]]

\* '"text" in s' on atoms
Contains(s, a) == a \in Range(s)

(***************************************************************************)
(* Site classifier                                                         *)
(***************************************************************************)
\* [\w-]+ : a run of one or more word atoms
WordAtoms == {"user", "x", "c1", "slug", "a", "r", "pub", "evil", "my"}

\* \d+-[\w-]+ : a profile id
ProfileIdAtoms == {"123-user"}

RECURSIVE SkipWords(_, _)
SkipWords(s, i) == IF i <= Len(s) /\ s[i] \in WordAtoms THEN SkipWords(s, i + 1) ELSE i

\* re.search(pattern, url, re.IGNORECASE) for the four note_patterns
NotePatternAt(s, i) ==
    /\ s[i] = "substack.com"
    /\ i + 1 <= Len(s)
    /\ \/ s[i + 1] = "/notes/"
       \/ /\ s[i + 1] = "/@"
          /\ i + 2 <= Len(s)
          /\ s[i + 2] \in WordAtoms
          /\ LET j == SkipWords(s, i + 2)
             IN  j <= Len(s) /\ s[j] \in {"/note/", "/p/comments/"}
       \/ /\ s[i + 1] = "/profile/"
          /\ i + 3 <= Len(s)
          /\ s[i + 2] \in ProfileIdAtoms
          /\ s[i + 3] = "/note/"

is_substack_note_url(u) ==
    LET s == Lower(u) IN \E i \in 1..Len(s) : NotePatternAt(s, i)

\* download_page: the text of the response, "" on any request failure
download_page(pg) == pg

\* the four Substack fingerprints of a NewsArticle node; the list handed to
\* any() is built eagerly, so publisher.get raises when publisher is not a dict
PublisherRaises(node) ==
    Has(node, "publisher") /\ node["publisher"].kind # "dict"

SubstackFingerprint(node) ==
    LET publisher == Get(node, "publisher", [kind |-> "dict", name |-> "", url |-> <<>>, identifier |-> <<>>])
    IN  \/ Contains(Get(node, "url", <<>>), "substack.com")
        \/ Contains(Get(node, "image", <<>>), "substackcdn.com")
        \/ (publisher.url # <<>> /\ publisher.url[Len(publisher.url)] = "substack.com")
        \/ (publisher.identifier # <<>> /\ publisher.identifier[1] = "pub:")

\* "True", "False" or "raise"
check_if_substack(html, u) ==
    IF html.empty \/ is_substack_note_url(u) THEN "False"
    ELSE LET json_ld == html.jsonld
             news == {i \in 1..Len(json_ld) : Get(json_ld[i], "@type", None) = "NewsArticle"}
             hit == {i \in news : ~PublisherRaises(json_ld[i]) /\ SubstackFingerprint(json_ld[i])}
             bad == {i \in news : PublisherRaises(json_ld[i])}
         IN  IF \E i \in hit : \A j \in bad : i < j THEN "True"
             ELSE IF bad # {} THEN "raise"
             ELSE "False"

(***************************************************************************)
(* Structured data extractor                                               *)
(***************************************************************************)
TITLE_FALLBACK_WORD_LIMIT == 20

WhitespaceAtoms == {" ", "  "}

\* str.split(): the maximal runs of atoms that are not whitespace
RECURSIVE split(_)
split(s) ==
    IF s = <<>> THEN <<>>
    ELSE IF Head(s) \in WhitespaceAtoms THEN split(Tail(s))
    ELSE LET stop == IF \E i \in 1..Len(s) : s[i] \in WhitespaceAtoms
                     THEN (CHOOSE i \in 1..Len(s) :
                             s[i] \in WhitespaceAtoms /\ \A j \in 1..(i - 1) : s[j] \notin WhitespaceAtoms)
                     ELSE Len(s) + 1
         IN  <<Take(s, stop - 1)>> \o split(Drop(s, stop - 1))

\* " ".join(words)
join(words) == JoinWith(words, <<" ">>)

EmptyMetadata == [title |-> <<>>, author |-> <<>>, date |-> "", publisher |-> "", type |-> ""]

FirstIndex(S) == IF S = {} THEN 0 ELSE CHOOSE i \in S : \A j \in S : i <= j

\* the priority search for the target node
NestedComments(node) ==
    IF Get(node, "@type", None) = "SocialMediaPosting" /\ Has(node, "comment")
    THEN node["comment"] ELSE <<>>

\* a search that looks for an article or post before a top-level comment
target_item_ArticleFirst(json_ld, u) ==
    LET is_linkedin_feed_update ==
            Contains(Lower(u), "linkedin.com") /\ Contains(u, "/feed/update/")
        n == FirstIndex({i \in 1..Len(json_ld) : NestedComments(json_ld[i]) # <<>>})
        c == FirstIndex({i \in 1..Len(json_ld) : Get(json_ld[i], "@type", None) = "Comment"})
        a == FirstIndex({i \in 1..Len(json_ld) :
                Get(json_ld[i], "@type", None) \in
                  {"NewsArticle", "BlogPosting", "SocialMediaPosting",
                   "DiscussionForumPosting", "Article"}})
    IN  IF is_linkedin_feed_update /\ n # 0 THEN NestedComments(json_ld[n])[1]
        ELSE IF a # 0 THEN json_ld[a]
        ELSE IF c # 0 THEN json_ld[c]
        ELSE <<>>

target_item(json_ld, u) ==
    LET is_linkedin == Contains(Lower(u), "linkedin.com")
        is_linkedin_feed_update == is_linkedin /\ Contains(u, "/feed/update/")
        n == FirstIndex({i \in 1..Len(json_ld) : NestedComments(json_ld[i]) # <<>>})
        nested == IF is_linkedin_feed_update /\ n # 0 THEN NestedComments(json_ld[n])[1] ELSE <<>>
        c == FirstIndex({i \in 1..Len(json_ld) : Get(json_ld[i], "@type", None) = "Comment"})
        a == FirstIndex({i \in 1..Len(json_ld) :
                Get(json_ld[i], "@type", None) \in
                  {"NewsArticle", "BlogPosting", "SocialMediaPosting",
                   "DiscussionForumPosting", "Article"}})
    IN  IF DOMAIN nested # {} THEN nested
        ELSE IF c # 0 THEN json_ld[c]
        ELSE IF a # 0 THEN json_ld[a]
        ELSE <<>>

\* author: first element's name of a list, the name of a dict, else the value
\* itself; raises (AttributeError) on a list whose first element is a string
AuthorRaises(t) ==
    Has(t, "author") /\ t["author"].kind = "strlist" /\ t["author"].names # <<>>

AuthorOf(t) ==
    IF ~Has(t, "author") THEN <<>>
    ELSE LET af == t["author"]
         IN  CASE af.kind = "list" -> IF af.names # <<>> THEN af.names[1] ELSE <<>>
               [] af.kind = "dict" -> af.name
               [] OTHER -> af.value

\* a title rule that adds the suffix already at the word limit
TitleOf_SuffixAtLimit(t) ==
    IF Get(t, "@type", None) \in {"NewsArticle", "BlogPosting", "Article"}
    THEN Get(t, "name", Get(t, "headline", <<>>))
    ELSE LET words == split(Get(t, "text", Get(t, "articleBody", <<>>)))
         IN  join(IF Len(words) > TITLE_FALLBACK_WORD_LIMIT
                  THEN Take(words, TITLE_FALLBACK_WORD_LIMIT) ELSE words)
             \o (IF Len(words) >= TITLE_FALLBACK_WORD_LIMIT THEN <<" ...">> ELSE <<>>)

\* headline for the article types, else the first 20 words of the text
TitleOf(t) ==
    IF Get(t, "@type", None) \in {"NewsArticle", "BlogPosting", "Article"}
    THEN Get(t, "name", Get(t, "headline", <<>>))
    ELSE LET full_text == Get(t, "text", Get(t, "articleBody", <<>>))
             words == split(full_text)
             kept == IF Len(words) > TITLE_FALLBACK_WORD_LIMIT
                     THEN Take(words, TITLE_FALLBACK_WORD_LIMIT) ELSE words
         IN  join(kept) \o (IF Len(words) > TITLE_FALLBACK_WORD_LIMIT THEN <<" ...">> ELSE <<>>)

DateOf(t) ==
    IF Get(t, "datePublished", "") # "" THEN t["datePublished"]
    ELSE IF Get(t, "dateCreated", "") # "" THEN t["dateCreated"]
    ELSE IF Get(t, "dateModified", "") # "" THEN t["dateModified"]
    ELSE ""

PublisherOf(t) ==
    LET publisher == Get(t, "publisher", [kind |-> "dict", name |-> "", url |-> <<>>, identifier |-> <<>>])
    IN  IF publisher.kind = "dict" THEN publisher.name ELSE ""

\* the metadata dict is filled in place, so a fault leaves the fields set so far
MetadataOf(t) ==
    IF DOMAIN t = {} THEN EmptyMetadata
    ELSE IF AuthorRaises(t)
    THEN [EmptyMetadata EXCEPT !.type = Get(t, "@type", "")]
    ELSE [title |-> TitleOf(t), author |-> AuthorOf(t), date |-> DateOf(t),
          publisher |-> PublisherOf(t), type |-> Get(t, "@type", "")]

extract_metadata(html, u) ==
    IF html.empty THEN EmptyMetadata ELSE MetadataOf(target_item(html.jsonld, u))

(***************************************************************************)
(* Record reconciler                                                       *)
(***************************************************************************)
\* dateutil's parser.parse followed by strftime("%Y-%m-%d"): the day a date
\* string denotes, None where parse raises
NormalizedDate(d) ==
    CASE d = "2024-03-01" -> "2024-03-01"
      [] d = "2024-03-01T10:00:00Z" -> "2024-03-01"
      [] d = "March 1, 2024" -> "2024-03-01"
      [] d = "2024-01-02" -> "2024-01-02"
      [] d = "2024-01-02T08:30:00+00:00" -> "2024-01-02"
      [] OTHER -> None

\* str.strip() on the date strings
strip(d) ==
    CASE d = "  " -> ""
      [] d = " 2024-03-01 " -> "2024-03-01"
      [] OTHER -> d

\* a validation that forgets the cleanup of the field of the other item type
validate_item_fields_NoCleanup(item_data) == item_data

validate_item_fields(item_data) ==
    LET item_type == Get(item_data, "itemType", None)
    IN  IF item_type = "forumPost" THEN Del(item_data, "blogTitle")
        ELSE IF item_type = "blogPost" THEN Del(item_data, "forumTitle")
        ELSE item_data

\* a type list that lacks SocialMediaPosting
ItemTypeFor_NoSocial(metadata) ==
    IF Get(metadata, "type", None) \in {"Comment", "DiscussionForumPosting"}
    THEN "forumPost" ELSE "blogPost"

\* metadata.get("type") in ["Comment", "DiscussionForumPosting", "SocialMediaPosting"]
ItemTypeFor(metadata) ==
    IF Get(metadata, "type", None) \in {"Comment", "DiscussionForumPosting", "SocialMediaPosting"}
    THEN "forumPost" ELSE "blogPost"

\* the publisher goes under the title field of the item type just set
WithPublisher(updated_data, metadata) ==
    IF metadata.publisher # ""
    THEN IF updated_data["itemType"] = "forumPost"
         THEN Put(updated_data, "forumTitle", metadata.publisher)
         ELSE Put(updated_data, "blogTitle", metadata.publisher)
    ELSE updated_data

\* a date block that compares the raw current date with the normalized one
WithDate_RawCompare(updated_data, metadata) ==
    IF metadata.date = "" THEN updated_data
    ELSE LET meta_date_str == NormalizedDate(metadata.date)
             current_date_str == strip(Get(updated_data, "date", ""))
         IN  IF meta_date_str # None
             THEN IF current_date_str = "" \/ current_date_str # meta_date_str
                  THEN Put(updated_data, "date", meta_date_str)
                  ELSE updated_data
             ELSE IF Get(updated_data, "date", "") = ""
                  THEN Put(updated_data, "date", metadata.date)
                  ELSE updated_data

\* the date block: overwrite with the normalized metadata date unless the
\* current date normalizes to the same day; an unparsable metadata date is
\* stored raw only over a missing or empty date
WithDate(updated_data, metadata) ==
    IF metadata.date = "" THEN updated_data
    ELSE LET meta_date_str == NormalizedDate(metadata.date)
             stripped == strip(Get(updated_data, "date", ""))
             current_date_str == IF stripped = "" \/ NormalizedDate(stripped) = None
                                 THEN "" ELSE NormalizedDate(stripped)
         IN  IF meta_date_str # None
             THEN IF current_date_str = "" \/ current_date_str # meta_date_str
                  THEN Put(updated_data, "date", meta_date_str)
                  ELSE updated_data
             ELSE IF Get(updated_data, "date", "") = ""
                  THEN Put(updated_data, "date", metadata.date)
                  ELSE updated_data

\* creators that are replaced whenever an author was extracted
WithCreators_Overwrite(updated_data, metadata) ==
    LET name_parts == split(metadata.author)
    IN  IF name_parts # <<>>
        THEN Put(updated_data, "creators",
                 <<[firstName |-> join(Take(name_parts, Len(name_parts) - 1)),
                    lastName |-> name_parts[Len(name_parts)],
                    creatorType |-> "author"]>>)
        ELSE updated_data

\* creators are filled from the author only when the record has none
WithCreators(updated_data, metadata) ==
    LET name_parts == split(metadata.author)
    IN  IF metadata.author # <<>> /\ Get(updated_data, "creators", <<>>) = <<>> /\ name_parts # <<>>
        THEN Put(updated_data, "creators",
                 <<[firstName |-> join(Take(name_parts, Len(name_parts) - 1)),
                    lastName |-> name_parts[Len(name_parts)],
                    creatorType |-> "author"]>>)
        ELSE updated_data

HasTag(tags, t) == \E i \in 1..Len(tags) : tags[i].tag = t

\* the label tag is appended unless a tag already equals it
WithLabelTag(updated_data, label) ==
    LET tags == Get(updated_data, "tags", <<>>)
    IN  Put(updated_data, "tags",
            IF HasTag(tags, label) THEN tags ELSE Append(tags, [tag |-> label]))

\* the body shared by prepare_substack_item_update and
\* prepare_linkedin_item_update, which differ in websiteType and label only
prepare_item_update(it, metadata, websiteType, label) ==
    LET d1 == Put(Put(it.data, "itemType", ItemTypeFor(metadata)), "websiteType", websiteType)
        d2 == IF metadata.title # <<>> THEN Put(d1, "title", metadata.title) ELSE d1
        d3 == WithPublisher(d2, metadata)
        d4 == WithDate(d3, metadata)
        d5 == WithCreators(d4, metadata)
        d6 == WithLabelTag(d5, label)
    IN  validate_item_fields(d6)

prepare_substack_item_update(it, metadata) ==
    prepare_item_update(it, metadata, "Substack Newsletter", "Substack")

prepare_linkedin_item_update(it, metadata) ==
    prepare_item_update(it, metadata, "LinkedIn", "LinkedIn")

\* dict(item["data"]) is a shallow copy: the tags list of the copy is the
\* caller's list, so an append to it shows in the caller's record too, unless
\* the record had no tags key and the copy got a fresh list
Aliased(it, updated_data) ==
    IF Has(it.data, "tags")
    THEN [it EXCEPT !.data = Put(it.data, "tags", updated_data["tags"])]
    ELSE it

(***************************************************************************)
(* process_item                                                            *)
(*                                                                         *)
(* The result is [kind, data, item, stats, fetched]: kind is "update" (data *)
(* is the returned dict), "None", or "raise"; item is the caller's record  *)
(* after the call; stats the global counters; fetched the number of        *)
(* download_page calls.                                                    *)
(***************************************************************************)
Outcome(kind, data, it, st, n) ==
    [kind |-> kind, data |-> data, item |-> it, stats |-> st, fetched |-> n]

\* line 716: the append to the tags list, seen through the caller's record too
Tagged(it, tagged, st, n) == Outcome("update", tagged, Aliased(it, tagged), st, n)

\* lines 712-719: the sentinel tag is appended when needs_update is set
Finish(it, updated_data, needs_update, st, n) ==
    IF needs_update
    THEN Tagged(it, Put(updated_data, "tags",
                        Append(Get(updated_data, "tags", <<>>), [tag |-> "zotero:processed"])),
                st, n)
    ELSE Outcome("None", <<>>, it, st, n)

\* return updated_data if needs_update else None (lines 630 and 636)
EarlyReturn(it, updated_data, needs_update, st) ==
    IF needs_update THEN Outcome("update", updated_data, it, st, 0)
    ELSE Outcome("None", <<>>, it, st, 0)

\* lines 653-659: the reconciled record replaces updated_data, the cleaned URL
\* is put back and needs_update is set
Reconcile(it, prepared, cleaned_url, st) ==
    Finish(Aliased(it, prepared), Put(prepared, "url", cleaned_url), TRUE, st, 1)

\* lines 645-708, given the outcome of check_if_substack and the metadata
Classified(it, html, u, cleaned_url, updated_data, needs_update, st, checked, metadata) ==
    IF ~html.empty /\ checked = "raise" THEN Outcome("raise", <<>>, it, st, 1)
    ELSE IF ~html.empty /\ (checked = "True" \/ is_substack_note_url(u))
    THEN Reconcile(it, prepare_substack_item_update(it, metadata), cleaned_url,
                   [st EXCEPT !.substackFound = @ + 1])
    ELSE IF ~html.empty /\ Contains(Lower(u), "linkedin.com")
    THEN Reconcile(it, prepare_linkedin_item_update(it, metadata), cleaned_url,
                   [st EXCEPT !.linkedinFound = @ + 1])
    ELSE Finish(it, updated_data, needs_update, st, 1)

\* lines 638-643: fetch, classify, extract
Detect(it, pg, u, cleaned_url, updated_data, needs_update, st) ==
    Classified(it, download_page(pg), u, cleaned_url, updated_data, needs_update, st,
               check_if_substack(download_page(pg), u),
               extract_metadata(download_page(pg), u))

\* a gate that ignores the sentinel tag
ShouldDetect_Always(it, f) == TRUE

\* lines 623-625: force, or no tag of the record is the sentinel
ShouldDetect(it, f) ==
    f.force \/ ~HasTag(Get(it.data, "tags", <<>>), "zotero:processed")

\* lines 622-710, given the cleaned URL
Cleaned(it, pg, f, st, u, cleaned_url, updated_data) ==
    IF ShouldDetect(it, f)
    THEN IF f.exclude_linkedin /\ Contains(Lower(u), "linkedin.com")
         THEN EarlyReturn(it, updated_data, cleaned_url # u, st)
         ELSE IF f.exclude_substack /\ ~f.exclude_linkedin /\ ~Contains(Lower(u), "linkedin.com")
         THEN EarlyReturn(it, updated_data, cleaned_url # u, st)
         ELSE Detect(it, pg, u, cleaned_url, updated_data, cleaned_url # u, st)
    ELSE Finish(it, updated_data, cleaned_url # u, st, 0)

\* lines 616-620: the URL is replaced in the copy when cleaning changes it
CleanedCopy(it, pg, f, st, u, cleaned_url) ==
    Cleaned(it, pg, f, st, u, cleaned_url,
            IF cleaned_url # u THEN Put(it.data, "url", cleaned_url) ELSE it.data)

process_item(it, pg, f, st) ==
    IF Get(it.data, "url", <<>>) = <<>> THEN Outcome("None", <<>>, it, st, 0)
    ELSE CleanedCopy(it, pg, f, st, it.data["url"], clean_url(it.data["url"]))

(***************************************************************************)
(* Specification SpecUrl: clean_url applied to every bounded input URL,    *)
(* and once more to its own output.                                        *)
(***************************************************************************)
UrlPrefixes == {<<"https://", "x.com", "/p">>, <<"https://", "[", "x.com", "/p">>}

TailAtoms == {"?", "&", "=", "#", "r", "R", "a", "eType", "%26", "%72"}

\* queries in which a key occurs twice with another key in between
RepeatedKeyTails ==
    {<<"?", "a", "=", "r", "&", "b", "=", "r", "&", "a", "=", "R">>,
     <<"?", "a", "=", "a", "&", "r", "=", "a", "&", "b", "=", "a", "&", "a", "=", "b">>,
     <<"?", "b", "=", "a", "&", "a", "=", "a", "&", "a", "=", "b">>}

UrlInputs ==
    {p \o t : p \in UrlPrefixes, t \in SeqsUpTo(TailAtoms, MaxTail) \cup RepeatedKeyTails}

NoRecord == [data |-> <<>>]

NoReturn == [kind |-> "None"]

NoStats == [substackFound |-> 0, linkedinFound |-> 0]

NoFlags == [force |-> FALSE, exclude_substack |-> FALSE, exclude_linkedin |-> FALSE]

\* no streaming handler exists
NoStream ==
    /\ ws = None
    /\ connected = FALSE
    /\ retry_delay = [whole |-> 10, frac |-> 0]
    /\ topics = {}
    /\ tries = 0
    /\ log = <<>>
    /\ slept = [whole |-> 0, frac |-> 0]
    /\ advised = <<>>
    /\ faults = 0
    /\ msgs = 0
    /\ session = [open |-> FALSE, handshake |-> None, ack |-> FALSE]
    /\ event = [event |-> None, topic |-> None]
    /\ reads = 0
    /\ writes = <<>>
    /\ reached = 0

\* no batch run is under way
NoBatch ==
    /\ zot = <<>>
    /\ opts = <<>>
    /\ start = 0
    /\ web_items = <<>>
    /\ updates = <<>>
    /\ batch_updates = <<>>
    /\ calls = <<>>

InitUrl ==
    /\ pc = "start"
    /\ url \in UrlInputs
    /\ out = <<>>
    /\ out2 = <<>>
    /\ item = NoRecord
    /\ page = <<>>
    /\ md = <<>>
    /\ flags = NoFlags
    /\ ret = NoReturn
    /\ orig = <<>>
    /\ stats = NoStats
    /\ fetched = 0
    /\ pass = 0
    /\ NoBatch
    /\ NoStream

\* cleaned_url = clean_url(url)
CleanUrl ==
    /\ pc = "start"
    /\ out' = clean_url(url)
    /\ pc' = "cleaned"
    /\ UNCHANGED <<url, out2, item, page, md, flags, ret, orig, stats, fetched, pass>>
    /\ UNCHANGED batchVars
    /\ UNCHANGED streamVars

\* the next run's clean_url on the URL the previous run stored
CleanAgain ==
    /\ pc = "cleaned"
    /\ out2' = clean_url(out)
    /\ pc' = "recleaned"
    /\ UNCHANGED <<url, out, item, page, md, flags, ret, orig, stats, fetched, pass>>
    /\ UNCHANGED batchVars
    /\ UNCHANGED streamVars

NextUrl == CleanUrl \/ CleanAgain

SpecUrl == InitUrl /\ [][NextUrl]_vars

\* the decoded keys of the query of a URL, read without raising
QueryKeys(u) ==
    LET h == IndexOf(u, "#")
        pre == IF h = 0 THEN u ELSE Take(u, h - 1)
        q == IndexOf(pre, "?")
        pairs == parse_qsl(IF q = 0 THEN <<>> ELSE Drop(pre, q))
    IN  {pairs[i].k : i \in 1..Len(pairs)}

DenylistedKey(k) == \E d \in remove_params : Lower(k) = Lower(d)

\* C1: the output of clean_url has no query parameter whose key equals,
\* case-insensitively, a key of the tracking denylist.
C1_NoDenylistedKeyInOutput ==
    pc \in {"cleaned", "recleaned"} => \A k \in QueryKeys(out) : ~DenylistedKey(k)

\* C2: clean_url is idempotent: cleaning the cleaned URL changes nothing.
C2_CleanUrlIdempotent ==
    pc = "recleaned" => out2 = out

(***************************************************************************)
(* Specification SpecPrepare: prepare_substack_item_update and             *)
(* prepare_linkedin_item_update applied to every bounded record and        *)
(* metadata dict.                                                          *)
(***************************************************************************)
Merge(d1, d2) ==
    [k \in (DOMAIN d1) \cup (DOMAIN d2) |-> IF k \in DOMAIN d2 THEN d2[k] ELSE d1[k]]

Jane == <<"Jane", " ", "Q.", " ", "Public">>

SomeCreator == [firstName |-> <<"Ann">>, lastName |-> <<"Other">>, creatorType |-> "author"]

PrepTypes == {"Comment", "DiscussionForumPosting", "SocialMediaPosting",
              "NewsArticle", "BlogPosting", "Article", "", None}

RecordDates == {"", "  ", "2024-03-01", "March 1, 2024", "2024-01-02", "not a date"}

MetadataDates == {"", "2024-03-01T10:00:00Z", "2024-01-02", "sometime last week"}

PrepItems ==
    {[data |-> Merge(Merge(Merge(Merge(
                 [url |-> <<"https://", "example.com", "/p/slug">>,
                  itemType |-> ty, title |-> <<"Old">>, creators |-> cr],
                 bt), ft), dt), tg)] :
        ty \in {"webpage", "blogPost", "forumPost"},
        cr \in {<<>>, <<SomeCreator>>},
        bt \in {<<>>, [blogTitle |-> "Old Blog"]},
        ft \in {<<>>, [forumTitle |-> "Old Forum"]},
        dt \in {<<>>} \cup {[date |-> d] : d \in RecordDates},
        tg \in {<<>>, [tags |-> <<>>], [tags |-> <<[tag |-> "Substack"]>>]}}

PrepMetadata ==
    {[title |-> ti, author |-> au, date |-> d, publisher |-> pb, type |-> ty] :
        ti \in {<<>>, <<"Hello", " ", "World">>},
        au \in {<<>>, Jane, <<"Plato">>, <<" ", "Ada", "  ", "Lovelace">>},
        d \in MetadataDates,
        pb \in {"", "Pub Weekly"},
        ty \in PrepTypes}

InitPrepare ==
    /\ pc = "start"
    /\ item \in PrepItems
    /\ md \in PrepMetadata
    /\ url = <<>>
    /\ out = <<>>
    /\ out2 = <<>>
    /\ page = <<>>
    /\ flags = NoFlags
    /\ ret = NoReturn
    /\ orig = <<>>
    /\ stats = NoStats
    /\ fetched = 0
    /\ pass = 0
    /\ NoBatch
    /\ NoStream

PrepareSubstack ==
    /\ pc = "start"
    /\ LET prepared == prepare_substack_item_update(item, md)
       IN  /\ ret' = [kind |-> "update", data |-> prepared]
           /\ item' = Aliased(item, prepared)
    /\ orig' = item.data
    /\ pc' = "substack"
    /\ UNCHANGED <<url, out, out2, page, md, flags, stats, fetched, pass>>
    /\ UNCHANGED batchVars
    /\ UNCHANGED streamVars

PrepareLinkedin ==
    /\ pc = "start"
    /\ LET prepared == prepare_linkedin_item_update(item, md)
       IN  /\ ret' = [kind |-> "update", data |-> prepared]
           /\ item' = Aliased(item, prepared)
    /\ orig' = item.data
    /\ pc' = "linkedin"
    /\ UNCHANGED <<url, out, out2, page, md, flags, stats, fetched, pass>>
    /\ UNCHANGED batchVars
    /\ UNCHANGED streamVars

NextPrepare == PrepareSubstack \/ PrepareLinkedin

SpecPrepare == InitPrepare /\ [][NextPrepare]_vars

Prepared == pc \in {"substack", "linkedin"}

\* C3: the record a prepare function returns never carries both forumTitle
\* and blogTitle: a forumPost has no blogTitle, a blogPost no forumTitle.
C3_TitleFieldsExclusive ==
    Prepared =>
        /\ ~(Has(ret.data, "forumTitle") /\ Has(ret.data, "blogTitle"))
        /\ ret.data["itemType"] = "forumPost" => ~Has(ret.data, "blogTitle")
        /\ ret.data["itemType"] = "blogPost" => ~Has(ret.data, "forumTitle")

C3_Witness ==
    /\ pc = "substack"
    /\ Has(orig, "forumTitle") /\ Has(orig, "blogTitle")
    /\ ret.data["itemType"] = "forumPost"
    /\ Has(ret.data, "forumTitle")

ForumTypes == {"Comment", "DiscussionForumPosting", "SocialMediaPosting"}

\* C4: itemType is forumPost exactly for the metadata types Comment,
\* DiscussionForumPosting and SocialMediaPosting and blogPost for any other
\* type, a missing one included; a non-empty publisher is stored under
\* forumTitle of a forumPost and under blogTitle of a blogPost.
C4_ItemTypeAndPublisherField ==
    Prepared =>
        /\ ret.data["itemType"] = (IF md.type \in ForumTypes THEN "forumPost" ELSE "blogPost")
        /\ md.publisher # "" =>
             Get(ret.data, IF md.type \in ForumTypes THEN "forumTitle" ELSE "blogTitle", None)
               = md.publisher

C4_Witness ==
    /\ pc = "linkedin"
    /\ md.type = "SocialMediaPosting"
    /\ md.publisher = "Pub Weekly"
    /\ orig["itemType"] = "blogPost"
    /\ ret.data["itemType"] = "forumPost"
    /\ Get(ret.data, "forumTitle", None) = "Pub Weekly"

Parses(d) == NormalizedDate(d) # None

\* the record's date as the claim reads it: its normalized day, None when the
\* date is absent, blank or unparsable
ExistingDay(d) == IF Has(d, "date") THEN NormalizedDate(strip(d["date"])) ELSE None

DateUntouched == Has(ret.data, "date") = Has(orig, "date")
                    /\ (Has(orig, "date") => ret.data["date"] = orig["date"])

\* C7: a parsable extracted date replaces the record's date, normalized, when
\* the existing date is absent, unparsable or another day, and leaves it
\* untouched when it is the same day; an unparsable extracted date is stored
\* raw only in a record with no date and never replaces an existing date.
C7_DateReconciliation ==
    (Prepared /\ md.date # "") =>
        IF Parses(md.date)
        THEN IF ExistingDay(orig) = NormalizedDate(md.date)
             THEN DateUntouched
             ELSE Get(ret.data, "date", None) = NormalizedDate(md.date)
        ELSE IF Get(orig, "date", "") = ""
             THEN Get(ret.data, "date", None) = md.date
             ELSE DateUntouched

C7_Witness ==
    /\ pc = "substack"
    /\ md.date = "2024-03-01T10:00:00Z"
    /\ Get(orig, "date", "") = "March 1, 2024"
    /\ Get(ret.data, "date", "") = "March 1, 2024"

(***************************************************************************)
(* Specification SpecItem: process_item on a record, then the caller's     *)
(* write of the returned record to the store, then process_item on the     *)
(* record read back, for every combination of the three flags.             *)
(***************************************************************************)
Tracked == <<"?", "utm_source", "=", "x">>

ItemUrls ==
    {<<"https://", "pub.", "substack.com", "/p/slug">> \o Tracked,
     <<"https://", "pub.", "substack.com", "/p/slug">>,
     <<"https://", "substack.com", "/notes/", "x">>,
     <<"https://", "evil", "substack.com", "/notes/", "x">>,
     <<"https://", "my", "substack.com", "/@", "user", "/note/", "c1">>,
     <<"https://", "substackcdn.com", "/", "substack.com", "/notes/", "x">>,
     <<"https://", "www.", "linkedin.com", "/posts/", "x">> \o Tracked,
     <<"https://", "www.", "linkedin.com", "/feed/update/", "x">>,
     <<"https://", "example.com", "/p/slug">>,
     <<"https://", "example.com", "/p/slug", "#", "?", "?">>}

JaneCreator == [firstName |-> <<"Jane", " ", "Q.">>, lastName |-> <<"Public">>,
                creatorType |-> "author"]

NoPublisherFields == [kind |-> "dict", name |-> "", url |-> <<>>, identifier |-> <<>>]

\* the page fetch failed
PageEmpty == [empty |-> TRUE, jsonld |-> <<>>]

\* a page without structured data
PagePlain == [empty |-> FALSE, jsonld |-> <<>>]

\* a single BlogPosting node
PageBlog ==
    [empty |-> FALSE,
     jsonld |-> << ("@type" :> "BlogPosting") @@
                   [headline |-> <<"Hello", " ", "World">>,
                    author |-> [kind |-> "dict", name |-> Jane],
                    datePublished |-> "2024-01-02",
                    publisher |-> [NoPublisherFields EXCEPT !.name = "Pub Weekly"]] >>]

\* a NewsArticle node with a Substack publisher URL
PageNews ==
    [empty |-> FALSE,
     jsonld |-> << ("@type" :> "NewsArticle") @@
                   [headline |-> <<"News">>,
                    author |-> [kind |-> "list", names |-> <<Jane>>],
                    datePublished |-> "2024-03-01T10:00:00Z",
                    publisher |-> [NoPublisherFields EXCEPT
                                     !.name = "Pub Weekly",
                                     !.url = <<"https://", "pub.", "substack.com">>]] >>]

\* a NewsArticle node whose publisher is a plain string
PageStringPublisher ==
    [empty |-> FALSE,
     jsonld |-> << ("@type" :> "NewsArticle") @@
                   [headline |-> <<"News">>,
                    publisher |-> [kind |-> "str", value |-> "Pub Weekly"]] >>]

\* a top-level Comment node after an article node
PageComment ==
    [empty |-> FALSE,
     jsonld |-> << ("@type" :> "Article") @@ [headline |-> <<"Post">>],
                   ("@type" :> "Comment") @@
                   [text |-> <<"I", " ", "agree", "  ", "fully">>,
                    author |-> [kind |-> "str", value |-> <<"Plato">>],
                    dateCreated |-> "sometime last week"] >>]

\* a SocialMediaPosting node with a nested comment
PageSocial ==
    [empty |-> FALSE,
     jsonld |-> << ("@type" :> "SocialMediaPosting") @@
                   [articleBody |-> <<"A", " ", "post">>,
                    author |-> [kind |-> "dict", name |-> Jane],
                    datePublished |-> "2024-01-02T08:30:00+00:00",
                    comment |-> << ("@type" :> "Comment") @@
                                   [text |-> <<"Nice">>,
                                    author |-> [kind |-> "dict", name |-> <<"Plato">>]] >>] >>]

Pages == {PageEmpty, PagePlain, PageBlog, PageNews, PageStringPublisher,
          PageComment, PageSocial}

\* a record as the browser connector saves it
FreshFields == [itemType |-> "webpage", title |-> <<>>, date |-> "", creators |-> <<>>]

\* a record that already holds what PageNews yields
CuratedFields ==
    [itemType |-> "blogPost", websiteType |-> "Substack Newsletter", title |-> <<"News">>,
     blogTitle |-> "Pub Weekly", date |-> "2024-03-01", creators |-> <<JaneCreator>>]

ItemTags ==
    {<<>>,
     [tags |-> <<>>],
     [tags |-> <<[tag |-> "zotero:processed"]>>],
     [tags |-> <<[tag |-> "Substack"]>>],
     [tags |-> <<[tag |-> "Substack"], [tag |-> "zotero:processed"]>>]}

ItemRecords ==
    {[data |-> Merge(Merge(fields, [url |-> u]), tg)] :
        fields \in {FreshFields, CuratedFields}, u \in ItemUrls, tg \in ItemTags}

FlagSets == [force : BOOLEAN, exclude_substack : BOOLEAN, exclude_linkedin : BOOLEAN]

InitItem ==
    /\ pc = "idle"
    /\ item \in ItemRecords
    /\ page \in Pages
    /\ url = <<>>
    /\ out = <<>>
    /\ out2 = <<>>
    /\ md = <<>>
    /\ flags = NoFlags
    /\ ret = NoReturn
    /\ orig = <<>>
    /\ stats = NoStats
    /\ fetched = 0
    /\ pass = 0
    /\ NoBatch
    /\ NoStream

\* the effects of a call: the returned value, the caller's record, the counters
Returned(o) ==
    /\ ret' = [kind |-> o.kind, data |-> o.data]
    /\ item' = o.item
    /\ stats' = o.stats
    /\ fetched' = o.fetched

\* updated_data = process_item(item, exclude_substack, exclude_linkedin, force)
ProcessItem ==
    /\ pc = "idle"
    /\ pass < MaxPasses
    /\ \E f \in FlagSets :
         /\ Returned(process_item(item, page, f, stats))
         /\ flags' = f
    /\ orig' = item.data
    /\ pass' = pass + 1
    /\ pc' = "done"
    /\ UNCHANGED <<url, out, out2, page, md>>
    /\ UNCHANGED batchVars
    /\ UNCHANGED streamVars

\* zot.update_item(updated_data): the store now holds the returned record,
\* which the next pass reads back
StoreUpdate ==
    /\ pc = "done"
    /\ ret.kind = "update"
    /\ item' = [data |-> ret.data]
    /\ pc' = "idle"
    /\ UNCHANGED <<url, out, out2, page, md, flags, ret, orig, stats, fetched, pass>>
    /\ UNCHANGED batchVars
    /\ UNCHANGED streamVars

\* nothing is written: the next pass reads the stored record as it was
NoUpdate ==
    /\ pc = "done"
    /\ ret.kind # "update"
    /\ item' = [data |-> orig]
    /\ pc' = "idle"
    /\ UNCHANGED <<url, out, out2, page, md, flags, ret, orig, stats, fetched, pass>>
    /\ UNCHANGED batchVars
    /\ UNCHANGED streamVars

NextItem == ProcessItem \/ StoreUpdate \/ NoUpdate

SpecItem == InitItem /\ [][NextItem]_vars

OrigUrl == Get(orig, "url", <<>>)

OrigTags == Get(orig, "tags", <<>>)

RetTags == Get(ret.data, "tags", <<>>)

\* C5: the untagged record at pub.substack.com/p/slug?utm_source=x whose page
\* is a single BlogPosting node comes back with the URL stripped, itemType
\* blogPost, the title, blogTitle and date of the node, the one creator
\* Jane Q. / Public, and the Substack and zotero:processed tags.
C5_EndToEndBlogPosting ==
    (/\ pc = "done"
     /\ flags = NoFlags
     /\ orig = Merge(Merge(FreshFields,
                  [url |-> <<"https://", "pub.", "substack.com", "/p/slug">> \o Tracked]),
                  [tags |-> <<>>])
     /\ page = PageBlog)
    => /\ ret.kind = "update"
       /\ Get(ret.data, "url", <<>>) = <<"https://", "pub.", "substack.com", "/p/slug">>
       /\ Get(ret.data, "itemType", None) = "blogPost"
       /\ Get(ret.data, "title", <<>>) = <<"Hello", " ", "World">>
       /\ Get(ret.data, "blogTitle", None) = "Pub Weekly"
       /\ Get(ret.data, "date", None) = "2024-01-02"
       /\ Get(ret.data, "creators", <<>>) = <<JaneCreator>>
       /\ HasTag(RetTags, "Substack")
       /\ HasTag(RetTags, "zotero:processed")

OtherKeys(d) == (DOMAIN d) \ {"url", "tags"}

\* C6: without force, a record that carries zotero:processed is not fetched,
\* classified or extracted; it yields no update when its URL is normalized and
\* else an update that differs from the original in url and tags only.
C6_ProcessedRecordSkipped ==
    (pc = "done" /\ ~flags.force /\ HasTag(OrigTags, "zotero:processed")) =>
        /\ fetched = 0
        /\ ret.kind # "raise"
        /\ clean_url(OrigUrl) = OrigUrl => ret.kind = "None"
        /\ clean_url(OrigUrl) # OrigUrl =>
             /\ ret.kind = "update"
             /\ ret.data["url"] = clean_url(OrigUrl)
             /\ OtherKeys(ret.data) = OtherKeys(orig)
             /\ \A k \in OtherKeys(orig) : ret.data[k] = orig[k]

C6_Witness ==
    /\ pc = "done"
    /\ ~flags.force
    /\ HasTag(OrigTags, "zotero:processed")
    /\ page = PageNews
    /\ clean_url(OrigUrl) # OrigUrl
    /\ ret.kind = "update"
    /\ fetched = 0

\* a platform is detected for the record of the last call
PlatformDetected ==
    /\ fetched = 1
    /\ ~page.empty
    /\ \/ check_if_substack(page, OrigUrl) = "True"
       \/ is_substack_note_url(OrigUrl)
       \/ Contains(Lower(OrigUrl), "linkedin.com")

\* what reconciliation makes of the record of the last call
Reconciled ==
    LET metadata == extract_metadata(page, OrigUrl)
        prepared == IF check_if_substack(page, OrigUrl) = "True" \/ is_substack_note_url(OrigUrl)
                    THEN prepare_substack_item_update([data |-> orig], metadata)
                    ELSE prepare_linkedin_item_update([data |-> orig], metadata)
    IN  Put(prepared, "url", clean_url(OrigUrl))

\* C8: when a platform is detected but reconciliation changes no field of the
\* record, process_item returns no update.
C8_NoChangeNoUpdate ==
    (pc = "done" /\ ret.kind # "raise" /\ PlatformDetected /\ Reconciled = orig)
        => ret.kind = "None"

NoDuplicateTags(tags) ==
    \A i, j \in 1..Len(tags) : tags[i].tag = tags[j].tag => i = j

\* C9: a record whose tags have no duplicate comes back from process_item
\* with tags that have no duplicate, whatever the flags.
C9_TagsDuplicateFree ==
    (pc = "done" /\ ret.kind = "update" /\ NoDuplicateTags(OrigTags))
        => NoDuplicateTags(RetTags)

\* the host is substack.com or a strict subdomain of it
DotLabels == {"pub.", "www.", "open."}

OnSubstackHost(u) ==
    LET host == urlparse(u).netloc
    IN  /\ host # <<>>
        /\ host[Len(host)] = "substack.com"
        /\ \A i \in 1..(Len(host) - 1) : host[i] \in DotLabels

\* C10: a URL whose host is neither substack.com nor a subdomain of it is not
\* classified as Substack on the strength of its URL: with no Substack
\* fingerprint in the page, no Substack detection is counted for it.
C10_LookalikeHostNotSubstack ==
    (/\ pc = "done"
     /\ pass = 1
     /\ ~OnSubstackHost(OrigUrl)
     /\ check_if_substack(page, OrigUrl) # "True")
    => /\ ~is_substack_note_url(OrigUrl)
       /\ stats.substackFound = 0

(***************************************************************************)
(* Specification SpecTitle: extract_metadata on a page with one node whose *)
(* body text has pass words, for every node type, body key, separator and  *)
(* author shape.                                                           *)
(***************************************************************************)
\* the i-th word of a body: one atom, or two for every third word
Word(i) == IF i % 3 = 0 THEN <<"w", ToString(i)>> ELSE <<ToString(i)>>

Words(n) == [i \in 1..n |-> Word(i)]

\* n words separated by sep, with pad before and after
Body(n, sep, pad) == pad \o JoinWith(Words(n), <<sep>>) \o pad

NodeTypes == {"Comment", "SocialMediaPosting", "DiscussionForumPosting", "NewsArticle"}

NodeAuthors ==
    {<<>>,
     [author |-> [kind |-> "dict", name |-> Jane]],
     [author |-> [kind |-> "strlist", names |-> <<Jane>>]]}

TitleNodes(n) ==
    {Merge(Merge("@type" :> ty, body), au) :
        ty \in NodeTypes,
        body \in {[text |-> Body(n, sep, pad)] : sep \in WhitespaceAtoms, pad \in {<<>>, <<" ">>}}
             \cup {[articleBody |-> Body(n, " ", <<>>)],
                   [text |-> Body(n, " ", <<>>), articleBody |-> <<"other">>]},
        au \in NodeAuthors}

InitTitle ==
    /\ pc = "page"
    /\ pass \in 0..MaxWords
    /\ page \in {[empty |-> FALSE, jsonld |-> <<node>>] : node \in TitleNodes(pass)}
    /\ url = <<"https://", "example.com", "/p/slug">>
    /\ out = <<>>
    /\ out2 = <<>>
    /\ item = NoRecord
    /\ md = <<>>
    /\ flags = NoFlags
    /\ ret = NoReturn
    /\ orig = <<>>
    /\ stats = NoStats
    /\ fetched = 0
    /\ NoBatch
    /\ NoStream

\* metadata = extract_metadata(html, url)
ExtractMetadata ==
    /\ pc = "page"
    /\ md' = extract_metadata(page, url)
    /\ pc' = "extracted"
    /\ UNCHANGED <<url, out, out2, item, page, flags, ret, orig, stats, fetched, pass>>
    /\ UNCHANGED batchVars
    /\ UNCHANGED streamVars

NextTitle == ExtractMetadata

SpecTitle == InitTitle /\ [][NextTitle]_vars

TitleNode == page.jsonld[1]

\* the node is not of an article type and extraction got as far as the title
FallbackTitled ==
    /\ pc = "extracted"
    /\ TitleNode["@type"] \notin {"NewsArticle", "BlogPosting", "Article"}
    /\ ~AuthorRaises(TitleNode)

limit == 100

FlushThreshold == 50

\* the URL of the n-th record of a store, by the pattern the store follows
RecordUrl(pattern, n) ==
    IF pattern = "changed" THEN <<"https://", "example.com", "/p/slug">> \o Tracked
    ELSE CASE n % 5 = 1 -> <<"https://", "example.com", "/p/slug">> \o Tracked
           [] n % 5 = 2 -> <<"https://", "pub.", "substack.com", "/p/fault">>
           [] n % 5 = 3 -> <<"https://", "example.com", "/p/slug">>
           [] n % 5 = 4 -> <<"https://", "pub.", "substack.com", "/p/news">>
           [] OTHER -> <<>>

\* what download_page returns for a URL
PageAt(u) ==
    IF u = <<"https://", "pub.", "substack.com", "/p/fault">> THEN PageStringPublisher
    ELSE IF u = <<"https://", "pub.", "substack.com", "/p/news">> THEN PageNews
    ELSE PagePlain

StoredRecord(ty, n, pattern) ==
    [data |-> [key |-> <<ty, n>>, itemType |-> ty, title |-> <<>>, date |-> "",
               creators |-> <<>>, tags |-> <<>>, url |-> RecordUrl(pattern, n)]]

StoreSizes == {0, 1, 52, 100, 101}

Stores ==
    {[ty \in {"webpage", "blogPost", "forumPost"} |->
        [n \in 1..(IF ty = "webpage" THEN nw ELSE IF ty = "blogPost" THEN nb ELSE nf) |->
            StoredRecord(ty, n, pattern)]] :
        nw \in StoreSizes, nb \in {0, 1}, nf \in {0, 2}, pattern \in {"changed", "mixed"}}

BatchStats == [processed |-> 0, substackFound |-> 0, linkedinFound |-> 0,
               updated |-> 0, errors |-> 0, urls_cleaned |-> 0]

InitBatch ==
    /\ pc = "webpage"
    /\ zot \in Stores
    /\ opts \in [dry_run : BOOLEAN, confirm : BOOLEAN, answer : {None}]
    /\ flags \in {NoFlags, [NoFlags EXCEPT !.force = TRUE]}
    /\ start = 0
    /\ web_items = <<>>
    /\ updates = <<>>
    /\ batch_updates = <<>>
    /\ calls = <<>>
    /\ stats = BatchStats
    /\ item = NoRecord
    /\ ret = NoReturn
    /\ pass = 0
    /\ url = <<>>
    /\ out = <<>>
    /\ out2 = <<>>
    /\ page = <<>>
    /\ md = <<>>
    /\ orig = <<>>
    /\ fetched = 0
    /\ NoStream

\* zot.items(itemType=ty, start=start, limit=limit)
items(ty) ==
    LET all == zot[ty]
        last == IF start + limit < Len(all) THEN start + limit ELSE Len(all)
    IN  [i \in 1..(IF last > start THEN last - start ELSE 0) |-> all[start + i]]

\* one turn of a paging loop: the page is appended to web_items
PageOn(ty) ==
    /\ pc = ty
    /\ web_items' = web_items \o items(ty)
    /\ UNCHANGED <<zot, opts, updates, batch_updates, calls>>
    /\ UNCHANGED <<url, out, out2, item, page, md, flags, ret, orig, fetched, pass>>
    /\ UNCHANGED streamVars

Breaks(ty) == items(ty) = <<>> \/ Len(items(ty)) < limit

\* lines 760-770: the webpage loop; start is reset when it ends
FetchWebpage ==
    /\ PageOn("webpage")
    /\ IF Breaks("webpage")
       THEN start' = 0 /\ pc' = "blogPost"
       ELSE start' = start + Len(items("webpage")) /\ pc' = "webpage"
    /\ UNCHANGED stats

\* lines 773-780: the blogPost loop
FetchBlogPost ==
    /\ PageOn("blogPost")
    /\ start' = start + Len(items("blogPost"))
    /\ pc' = IF Breaks("blogPost") THEN "forumPost" ELSE "blogPost"
    /\ UNCHANGED stats

\* lines 783-790: the forumPost loop
FetchForumPost ==
    /\ PageOn("forumPost")
    /\ start' = start + Len(items("forumPost"))
    /\ pc' = IF Breaks("forumPost") THEN "filter" ELSE "forumPost"
    /\ UNCHANGED stats

\* lines 793-806: keep the records with a URL, reset the counters
FilterUrls ==
    /\ pc = "filter"
    /\ web_items' = SelectSeq(web_items, LAMBDA it : Get(it.data, "url", <<>>) # <<>>)
    /\ stats' = [stats EXCEPT !.urls_cleaned = 0, !.substackFound = 0,
                              !.linkedinFound = 0, !.updated = 0, !.errors = 0]
    /\ pc' = "confirm"
    /\ UNCHANGED <<zot, opts, start, updates, batch_updates, calls>>
    /\ UNCHANGED <<url, out, out2, item, page, md, flags, ret, orig, fetched, pass>>
    /\ UNCHANGED streamVars

\* lines 812-817: the prompt, unless confirm is set; a refusal returns
Confirm ==
    /\ pc = "confirm"
    /\ IF opts.confirm
       THEN pc' = "loop" /\ UNCHANGED opts
       ELSE \E answer \in BOOLEAN :
              /\ opts' = [opts EXCEPT !.answer = answer]
              /\ pc' = IF answer THEN "loop" ELSE "cancelled"
    /\ UNCHANGED <<zot, start, web_items, updates, batch_updates, calls>>
    /\ UNCHANGED <<url, out, out2, item, page, md, flags, ret, orig, stats, fetched, pass>>
    /\ UNCHANGED streamVars

\* lines 829-831: a fault that leaves the loop body
AfterProcess_Abort(kind) == IF kind = "raise" THEN "aborted" ELSE "flush"

\* lines 829-833: a fault of process_item is caught, the loop body goes on
AfterProcess(kind) == "flush"

\* lines 821-842, given the outcome o of process_item
Processed(o) ==
    /\ item' = o.item
    /\ web_items' = [web_items EXCEPT ![pass + 1] = o.item]
    /\ ret' = [kind |-> o.kind, data |-> o.data]
    /\ fetched' = o.fetched
    /\ updates' = IF o.kind = "update" THEN Append(updates, o.data) ELSE updates
    /\ batch_updates' = IF o.kind = "update" /\ ~opts.dry_run
                        THEN Append(batch_updates, o.data) ELSE batch_updates
    /\ stats' = [o.stats EXCEPT
                   !.errors = IF o.kind = "raise" THEN @ + 1 ELSE @,
                   !.urls_cleaned = IF o.kind = "update" /\
                                       Get(o.data, "url", None) # Get(o.item.data, "url", None)
                                    THEN @ + 1 ELSE @,
                   !.updated = IF o.kind = "update" /\ ~opts.dry_run THEN @ + 1 ELSE @]
    /\ pc' = AfterProcess(o.kind)

\* lines 820-842: process_item on the next record, the result collected
ProcessRecord ==
    /\ pc = "loop"
    /\ pass < Len(web_items)
    /\ orig' = web_items[pass + 1].data
    /\ Processed(process_item(web_items[pass + 1],
                              PageAt(clean_url(web_items[pass + 1].data["url"])),
                              flags, stats))
    /\ UNCHANGED <<zot, opts, start, calls>>
    /\ UNCHANGED <<url, out, out2, page, md, flags, pass>>
    /\ UNCHANGED streamVars

\* a flush only once the buffer is over the threshold
FlushDue_Late ==
    ~opts.dry_run /\
    (Len(batch_updates) > FlushThreshold \/ item = web_items[Len(web_items)])

\* a flush that does not look at dry_run
FlushDue_InDryRun ==
    Len(batch_updates) >= FlushThreshold \/ item = web_items[Len(web_items)]

\* lines 844-846
FlushDue ==
    ~opts.dry_run /\
    (Len(batch_updates) >= FlushThreshold \/ item = web_items[Len(web_items)])

\* a failed flush that keeps the buffer for the next attempt
AfterFlush_Retry(ok) == IF ok THEN <<>> ELSE batch_updates

\* lines 852 and 856: the buffer after zot.update_items returned or raised
AfterFlush(ok) == <<>>

\* lines 847-859: zot.update_items(batch_updates), which returns or raises
Flush ==
    /\ pc = "flush"
    /\ FlushDue
    /\ \E ok \in BOOLEAN :
         /\ calls' = Append(calls, [batch |-> batch_updates, ok |-> ok])
         /\ stats' = [stats EXCEPT !.errors = IF ok THEN @ ELSE @ + Len(batch_updates),
                                   !.processed = @ + 1]
         /\ batch_updates' = AfterFlush(ok)
    /\ pass' = pass + 1
    /\ pc' = "loop"
    /\ UNCHANGED <<zot, opts, start, web_items, updates>>
    /\ UNCHANGED <<url, out, out2, item, page, md, flags, ret, orig, fetched>>
    /\ UNCHANGED streamVars

\* lines 844-859 when no flush is due
SkipFlush ==
    /\ pc = "flush"
    /\ ~FlushDue
    /\ stats' = [stats EXCEPT !.processed = @ + 1]
    /\ pass' = pass + 1
    /\ pc' = "loop"
    /\ UNCHANGED batchVars
    /\ UNCHANGED <<url, out, out2, item, page, md, flags, ret, orig, fetched>>
    /\ UNCHANGED streamVars

\* lines 869-883: the loop is over
Complete ==
    /\ pc = "loop"
    /\ pass = Len(web_items)
    /\ pc' = "complete"
    /\ UNCHANGED batchVars
    /\ UNCHANGED <<url, out, out2, item, page, md, flags, ret, orig, stats, fetched, pass>>
    /\ UNCHANGED streamVars

NextBatch ==
    \/ FetchWebpage \/ FetchBlogPost \/ FetchForumPost \/ FilterUrls \/ Confirm
    \/ ProcessRecord \/ Flush \/ SkipFlush \/ Complete

SpecBatch == InitBatch /\ [][NextBatch]_vars

\* the records handed to zot.update_items so far, call after call
RECURSIVE Batches(_)
Batches(cs) == IF cs = <<>> THEN <<>> ELSE Head(cs).batch \o Batches(Tail(cs))

SentRecords == Batches(calls)

\* how often record r occurs in list l
Occurrences(l, r) == Cardinality({i \in 1..Len(l) : l[i] = r})

\* the records of the store
Stored == UNION {{zot[ty][n] : n \in 1..Len(zot[ty])} : ty \in DOMAIN zot}

\* C12: the list analyze_zotero_library goes on to process holds every record
\* of the three item types that carries a URL, each exactly once.
C12_EveryRecordWithUrlOnce ==
    pc = "confirm" =>
        /\ \A r \in Stored :
             Occurrences(web_items, r) = (IF Get(r.data, "url", <<>>) # <<>> THEN 1 ELSE 0)
        /\ \A i \in 1..Len(web_items) : web_items[i] \in Stored

\* the record just processed is the last of the list
LastProcessed == pass + 1 = Len(web_items)

\* C13: in a non-dry run zot.update_items is called exactly when, after a
\* record was processed, the buffer holds 50 records or the record is the last
\* one; the buffer never holds more than 50 records; when the run completes
\* the buffer is empty and the flushes together hold every changed record once.
C13_FlushWhenFullOrLast ==
    /\ [](Len(batch_updates) <= FlushThreshold)
    /\ [](pc = "complete" =>
            batch_updates = <<>> /\ (~opts.dry_run => SentRecords = updates))
    /\ [][~opts.dry_run =>
            ((Len(calls') = Len(calls) + 1) <=>
             (pc = "flush" /\ (Len(batch_updates) >= FlushThreshold \/ LastProcessed)))]_vars

\* a run of more than 50 changed records: a flush of 50, then one of the rest
C13_Witness ==
    /\ pc = "complete"
    /\ Len(calls) = 2
    /\ Len(calls[1].batch) = FlushThreshold
    /\ Len(updates) > FlushThreshold
    /\ Len(calls[2].batch) = Len(updates) - FlushThreshold

\* C14: when zot.update_items fails, errors grows by the size of the buffer,
\* the buffer is cleared, the loop goes on with the next record, and no record
\* is handed to the store twice in the run.
C14_FailedFlushDiscarded ==
    /\ [][(Len(calls') = Len(calls) + 1 /\ ~calls'[Len(calls')].ok) =>
            /\ stats'.errors = stats.errors + Len(batch_updates)
            /\ batch_updates' = <<>>
            /\ pass' = pass + 1
            /\ pc' = "loop"]_vars
    /\ [](\A i, j \in 1..Len(SentRecords) :
            SentRecords[i]["key"] = SentRecords[j]["key"] => i = j)

\* a failed flush of 50 records was followed by a flush of later records
C14_Witness ==
    /\ Len(calls) >= 2
    /\ ~calls[1].ok
    /\ Len(calls[1].batch) = FlushThreshold
    /\ calls[2].batch # <<>>
    /\ stats.errors >= FlushThreshold

\* C15: a fault of process_item on a record adds one to errors, yields no
\* update for the record, and the loop body goes on: processed counts the
\* record, and a completed run has processed every record of the list.
C15_RecordFaultIsolated ==
    /\ [][(pc = "loop" /\ pc' \notin {"loop", "complete"} /\ ret'.kind = "raise") =>
            /\ stats'.errors = stats.errors + 1
            /\ updates' = updates
            /\ batch_updates' = batch_updates
            /\ pc' = "flush"]_vars
    /\ [](pc \in {"loop", "complete"} => stats.processed = pass)
    /\ [](pc = "complete" => pass = Len(web_items))

\* a dry run completed with faults counted and a later record updated
C15_Witness ==
    /\ pc = "complete"
    /\ opts.dry_run
    /\ stats.errors > 0
    /\ ret.kind = "update"
    /\ stats.processed = Len(web_items)

\* C16: zot.update_items is called only in a run that is not a dry run and
\* was confirmed, by the confirm option or by the user's answer.
C16_WritesOnlyWhenConfirmed ==
    calls # <<>> => ~opts.dry_run /\ (opts.confirm \/ opts.answer = TRUE)

\* a run confirmed at the prompt wrote to the store
C16_Witness ==
    /\ calls # <<>>
    /\ ~opts.dry_run
    /\ ~opts.confirm
    /\ opts.answer = TRUE

(***************************************************************************)
(* Specification SpecStream: ZoteroStreamHandler.run() against a server    *)
(* that may close the connection, refuse it, or send messages, and a store  *)
(* of at most two records.                                                 *)
(***************************************************************************)
max_tries == 10

WindowLimit == 5

\* the handshake messages a server may send
Handshakes ==
    {[event |-> "connected", retry |-> 5000],
     [event |-> "connected", retry |-> 1500],
     [event |-> "connected"],
     [event |-> "error"]}

\* a delay that takes the advised milliseconds for seconds
Seconds_NoDivision(ms) == [whole |-> ms, frac |-> 0]

\* ms / 1000: the seconds and the thousandths of a second
Seconds(ms) == [whole |-> ms \div 1000, frac |-> ms % 1000]

StreamRecord(n, u) ==
    [data |-> Merge([key |-> <<"item", n>>, itemType |-> "webpage", title |-> <<>>,
                     date |-> "", creators |-> <<>>, tags |-> <<>>], u)]

StreamStores ==
    {<<>>,
     <<StreamRecord(1, [url |-> <<"https://", "example.com", "/p/slug">> \o Tracked])>>,
     <<StreamRecord(1, <<>>),
       StreamRecord(2, [url |-> <<"https://", "example.com", "/p/slug">> \o Tracked])>>,
     <<StreamRecord(1, [url |-> <<"https://", "example.com", "/p/slug">> \o Tracked]),
       StreamRecord(2, [url |-> <<"https://", "pub.", "substack.com", "/p/fault">>])>>,
     <<StreamRecord(1, [url |-> <<"https://", "pub.", "substack.com", "/p/fault">>]),
       StreamRecord(2, [url |-> <<"https://", "example.com", "/p/slug">> \o Tracked])>>,
     <<StreamRecord(1, [url |-> <<"https://", "example.com", "/p/slug", "#", "?", "?">>])>>}

InitStream ==
    /\ pc = "top"
    /\ zot \in StreamStores
    /\ ws = None
    /\ connected = FALSE
    /\ retry_delay = [whole |-> 10, frac |-> 0]
    /\ topics = {}
    /\ tries = 0
    /\ log = <<>>
    /\ slept = [whole |-> 0, frac |-> 0]
    /\ advised = <<>>
    /\ faults = 0
    /\ msgs = 0
    /\ session = [open |-> FALSE, handshake |-> None, ack |-> FALSE]
    /\ event = [event |-> None, topic |-> None]
    /\ reads = 0
    /\ writes = <<>>
    /\ reached = 0
    /\ stats = BatchStats
    /\ opts = <<>>
    /\ start = 0
    /\ web_items = <<>>
    /\ updates = <<>>
    /\ batch_updates = <<>>
    /\ calls = <<>>
    /\ item = NoRecord
    /\ ret = NoReturn
    /\ flags = NoFlags
    /\ pass = 0
    /\ url = <<>>
    /\ out = <<>>
    /\ out2 = <<>>
    /\ page = <<>>
    /\ md = <<>>
    /\ orig = <<>>
    /\ fetched = 0

\* the variables of the record pipeline that the handler does not keep
StreamIdle ==
    UNCHANGED <<url, out, out2, item, page, md, flags, ret, orig, fetched, pass,
                opts, start, web_items, updates, batch_updates, calls>>

\* lines 105-110: the top of the loop of run()
RunTop ==
    /\ pc = "top"
    /\ IF connected
       THEN pc' = "recv" /\ UNCHANGED <<tries, log>>
       ELSE pc' = "connect" /\ tries' = 0 /\ log' = Append(log, "connect")
    /\ UNCHANGED <<zot, stats, ws, connected, retry_delay, topics, slept, advised, faults, msgs>>
    /\ UNCHANGED session
    /\ UNCHANGED <<event, reads, writes, reached>>
    /\ StreamIdle

\* a backoff without max_tries
MayRetry_Unbounded(failed) == TRUE

\* lines 17-21: backoff runs the body again unless this was try max_tries
MayRetry(failed) == failed + 1 < max_tries

\* lines 17-28: a try of connect() that ends in ConnectionClosed or
\* ConnectionError, before or after the new connection is there; backoff
\* runs the body again
ConnectRetry ==
    /\ pc = "connect"
    /\ MayRetry(tries)
    /\ tries' = tries + 1
    /\ \E opened \in BOOLEAN : ws' = IF opened THEN "connection" ELSE ws
    /\ UNCHANGED <<pc, zot, stats, connected, retry_delay, topics, log, slept, advised, faults, msgs>>
    /\ session' = [open |-> FALSE, handshake |-> None, ack |-> FALSE]
    /\ UNCHANGED <<event, reads, writes, reached>>
    /\ StreamIdle

\* lines 17-21: the last try fails too and backoff lets the fault out
ConnectGiveUp ==
    /\ pc = "connect"
    /\ ~MayRetry(tries)
    /\ faults < MaxFaults
    /\ faults' = faults + 1
    /\ \E opened \in BOOLEAN : ws' = IF opened THEN "connection" ELSE ws
    /\ log' = Append(log, "raise")
    /\ pc' = "except"
    /\ UNCHANGED <<zot, stats, connected, retry_delay, topics, tries, slept, advised, msgs>>
    /\ session' = [open |-> FALSE, handshake |-> None, ack |-> FALSE]
    /\ UNCHANGED <<event, reads, writes, reached>>
    /\ StreamIdle

\* lines 27-31: a fault backoff does not retry (a refused handshake, a
\* message that is not JSON or has no event)
ConnectFault ==
    /\ pc = "connect"
    /\ faults < MaxFaults
    /\ faults' = faults + 1
    /\ \E opened \in BOOLEAN :
         /\ ws' = IF opened THEN "connection" ELSE ws
         /\ session' = [open |-> opened, handshake |-> None, ack |-> FALSE]
    /\ log' = Append(log, "raise")
    /\ pc' = "except"
    /\ UNCHANGED <<zot, stats, connected, retry_delay, topics, tries, slept, advised, msgs>>
    /\ UNCHANGED <<event, reads, writes, reached>>
    /\ StreamIdle

\* a handler that goes back to receiving without subscribing again
AfterConnect_NoSubscribe(l) == [pc |-> "recv", log |-> l]

\* lines 100-101 and 108-109: once connect() has returned, subscribe() is called
AfterConnect(l) == [pc |-> "subscribe", log |-> Append(l, "subscribe")]

\* lines 27-36: the connection is opened and the handshake message read
ConnectReturn ==
    /\ pc = "connect"
    /\ ws' = "connection"
    /\ \E connection_info \in Handshakes :
         /\ session' = [open |-> TRUE, handshake |-> connection_info["event"], ack |-> FALSE]
         /\ IF connection_info["event"] = "connected"
            THEN /\ connected' = TRUE
                 /\ retry_delay' = Seconds(Get(connection_info, "retry", 10000))
                 /\ advised' = connection_info
            ELSE UNCHANGED <<connected, retry_delay, advised>>
    /\ tries' = 0
    /\ pc' = AfterConnect(log).pc
    /\ log' = AfterConnect(log).log
    /\ UNCHANGED <<zot, stats, topics, slept, faults, msgs>>
    /\ UNCHANGED <<event, reads, writes, reached>>
    /\ StreamIdle

\* lines 40-41: subscribe() without a connection does nothing
SubscribeSkip ==
    /\ pc = "subscribe"
    /\ ~connected
    /\ pc' = "recv"
    /\ UNCHANGED <<zot, stats, ws, connected, retry_delay, topics, tries, log, slept, advised, faults, msgs>>
    /\ UNCHANGED session
    /\ UNCHANGED <<event, reads, writes, reached>>
    /\ StreamIdle

\* lines 43-46: the topic of the library, here a user library
SubscriptionTopic == "/users/1"

\* lines 43-66: the subscription is sent and the answer read
Subscribe ==
    /\ pc = "subscribe"
    /\ connected
    /\ \E created \in BOOLEAN :
         /\ topics' = IF created THEN topics \cup {SubscriptionTopic} ELSE topics
         /\ session' = [session EXCEPT !.ack = created]
    /\ pc' = "recv"
    /\ UNCHANGED <<zot, stats, ws, connected, retry_delay, tries, log, slept, advised, faults, msgs>>
    /\ UNCHANGED <<event, reads, writes, reached>>
    /\ StreamIdle

\* lines 58-62: the send or the receive of subscribe() faults
SubscribeFault ==
    /\ pc = "subscribe"
    /\ connected
    /\ faults < MaxFaults
    /\ faults' = faults + 1
    /\ log' = Append(log, "raise")
    /\ pc' = "except"
    /\ UNCHANGED <<zot, stats, ws, connected, retry_delay, topics, tries, slept, advised, msgs>>
    /\ UNCHANGED session
    /\ UNCHANGED <<event, reads, writes, reached>>
    /\ StreamIdle

\* lines 72 and 98-100: the receive ends in ConnectionClosed; connect() is called
RecvClosed ==
    /\ pc = "recv"
    /\ faults < MaxFaults
    /\ faults' = faults + 1
    /\ log' = <<"closed", "connect">>
    /\ tries' = 0
    /\ pc' = "connect"
    /\ UNCHANGED <<zot, stats, ws, connected, retry_delay, topics, slept, advised, msgs>>
    /\ session' = [session EXCEPT !.open = FALSE]
    /\ UNCHANGED <<event, reads, writes, reached>>
    /\ StreamIdle

\* lines 72-75: a message of another event
RecvOther ==
    /\ pc = "recv"
    /\ msgs < MaxMsgs
    /\ msgs' = msgs + 1
    /\ log' = Append(log, "recv")
    /\ UNCHANGED <<pc, zot, stats, ws, connected, retry_delay, topics, tries, slept, advised, faults>>
    /\ UNCHANGED session
    /\ event' = [event |-> "topicRemoved", topic |-> "/groups/2"]
    /\ UNCHANGED <<reads, writes, reached>>
    /\ StreamIdle

\* lines 72-75: a message that is not JSON or has no event
RecvFault ==
    /\ pc = "recv"
    /\ faults < MaxFaults
    /\ faults' = faults + 1
    /\ log' = Append(Append(log, "recv"), "raise")
    /\ pc' = "except"
    /\ UNCHANGED <<zot, stats, ws, connected, retry_delay, topics, tries, slept, advised, msgs>>
    /\ UNCHANGED session
    /\ UNCHANGED <<event, reads, writes, reached>>
    /\ StreamIdle

\* zot.update_item(updated_data): the record is replaced and is now the one
\* modified last
Updated(store, data) ==
    <<[data |-> data]>> \o SelectSeq(store, LAMBDA r : r.data["key"] # data["key"])

\* lines 88-96: the loop over the records of the window; oks says which of
\* the zot.update_item calls succeed. The result tells whether a fault left
\* the loop, the counters, the store, the zot.update_item calls made and the
\* number of records the loop came to
RECURSIVE Window(_, _, _, _)
RECURSIVE WindowStep(_, _, _, _, _)
Window(its, st, store, oks) ==
    IF its = <<>>
    THEN [raised |-> FALSE, stats |-> st, store |-> store, wrote |-> <<>>, reached |-> 0]
    ELSE IF ~Has(Head(its).data, "url")
    THEN [Window(Tail(its), st, store, Tail(oks)) EXCEPT !.reached = @ + 1]
    ELSE WindowStep(its, st, store, oks,
                    process_item(Head(its), PageAt(clean_url(Head(its).data["url"])),
                                 NoFlags, st))

WindowStep(its, st, store, oks, o) ==
    IF o.kind = "raise"
    THEN [raised |-> TRUE, stats |-> o.stats, store |-> store, wrote |-> <<>>, reached |-> 1]
    ELSE IF o.kind = "update"
    THEN [Window(Tail(its), o.stats,
                 IF Head(oks) THEN Updated(store, o.data) ELSE store, Tail(oks))
            EXCEPT !.reached = @ + 1,
                   !.wrote = <<[key |-> o.data["key"], ok |-> Head(oks)]>> \o @]
    ELSE [Window(Tail(its), o.stats, store, Tail(oks)) EXCEPT !.reached = @ + 1]

\* lines 81-85: zot.items(limit=5, sort="dateModified", direction="desc")
Latest(store) ==
    [i \in 1..(IF Len(store) < WindowLimit THEN Len(store) ELSE WindowLimit) |-> store[i]]

\* the effects of the loop over the window
Windowed(w) ==
    /\ zot' = w.store
    /\ stats' = w.stats
    /\ pc' = IF w.raised THEN "except" ELSE "recv"
    /\ log' = IF w.raised THEN Append(Append(log, "recv"), "raise") ELSE Append(log, "recv")
    /\ writes' = writes \o w.wrote
    /\ reached' = w.reached

\* lines 72-96: a topicUpdated message: the records modified last are
\* fetched, each one with a URL goes through process_item, each update is
\* sent to the store
RecvUpdate ==
    /\ pc = "recv"
    /\ msgs < MaxMsgs
    /\ msgs' = msgs + 1
    /\ \E oks \in [1..Len(Latest(zot)) -> BOOLEAN] :
         Windowed(Window(Latest(zot), stats, zot, oks))
    /\ UNCHANGED <<ws, connected, retry_delay, topics, tries, slept, advised, faults>>
    /\ UNCHANGED session
    /\ \E topic \in {SubscriptionTopic, "/groups/2"} :
         event' = [event |-> "topicUpdated", topic |-> topic]
    /\ reads' = reads + 1
    /\ StreamIdle

\* lines 111-113: the fault is caught and run() sleeps for retry_delay
Sleep ==
    /\ pc = "except"
    /\ slept' = retry_delay
    /\ log' = Append(log, "sleep")
    /\ pc' = "top"
    /\ UNCHANGED <<zot, stats, ws, connected, retry_delay, topics, tries, advised, faults, msgs>>
    /\ UNCHANGED session
    /\ UNCHANGED <<event, reads, writes, reached>>
    /\ StreamIdle

NextStream ==
    \/ RunTop \/ ConnectRetry \/ ConnectGiveUp \/ ConnectFault \/ ConnectReturn
    \/ SubscribeSkip \/ Subscribe \/ SubscribeFault
    \/ RecvClosed \/ RecvOther \/ RecvFault \/ RecvUpdate \/ Sleep

SpecStream == InitStream /\ [][NextStream]_vars

SleptMs == slept.whole * 1000 + slept.frac

AdvisedMs == IF Has(advised, "retry") THEN advised["retry"] ELSE 10000

\* C18: run() never returns: every fault that connect(), subscribe() or
\* process_updates() lets out is caught by run(), which sleeps for the retry
\* value of the last "connected" handshake, in seconds (10 if there is none),
\* and starts again from the top of its loop.
C18_RunSleepsAndRestarts ==
    /\ [](pc \in {"top", "connect", "subscribe", "recv", "except"})
    /\ [][(log' # log /\ log'[Len(log')] = "raise") => pc' = "except"]_vars
    /\ [][pc = "except" =>
            /\ pc' = "top"
            /\ SleptMs' = AdvisedMs
            /\ slept'.frac < 1000]_vars

\* run() slept 1.5 seconds after a fault and is back at the top of its loop
C18_Witness ==
    /\ pc = "top"
    /\ faults > 0
    /\ log[Len(log)] = "sleep"
    /\ advised = [event |-> "connected", retry |-> 1500]
    /\ slept = [whole |-> 1, frac |-> 500]

\* C19: every record process_item returns carries the tag zotero:processed.
C19_UpdateCarriesSentinel ==
    (pc = "done" /\ ret.kind = "update") => HasTag(RetTags, "zotero:processed")

\* the one creator an author string stands for
CreatorOf(author) ==
    CASE author = Jane -> [firstName |-> <<"Jane", " ", "Q.">>, lastName |-> <<"Public">>,
                           creatorType |-> "author"]
      [] author = <<"Plato">> -> [firstName |-> <<>>, lastName |-> <<"Plato">>,
                                  creatorType |-> "author"]
      [] author = <<" ", "Ada", "  ", "Lovelace">> ->
           [firstName |-> <<"Ada">>, lastName |-> <<"Lovelace">>, creatorType |-> "author"]

\* C20: a prepare function sets creators only on a record without creators,
\* and then to the one creator of type author whose lastName is the last
\* token of the author string and whose firstName is the tokens before it
\* joined by single spaces; a record with creators keeps them.
C20_CreatorsOnlyWhenNone ==
    Prepared =>
        IF orig["creators"] = <<>> /\ md.author # <<>>
        THEN ret.data["creators"] = <<CreatorOf(md.author)>>
        ELSE ret.data["creators"] = orig["creators"]

\* a record with a creator kept it although an author was extracted
C20_Witness ==
    /\ Prepared
    /\ orig["creators"] = <<SomeCreator>>
    /\ md.author = Jane
    /\ ret.data["creators"] = <<SomeCreator>>

(***************************************************************************)
(* Specification SpecGraph: extract_metadata on graphs of up to MaxNodes   *)
(* top-level nodes, each node marked by its author, for LinkedIn and other *)
(* URLs.                                                                   *)
(***************************************************************************)
Marked(ty, mark) == ("@type" :> ty) @@ [author |-> [kind |-> "str", value |-> mark]]

\* the node of a kind at place i of a graph
GraphNode(kind, i) ==
    CASE kind = "PostWithComments" ->
           Merge(Marked("SocialMediaPosting", <<"post", ToString(i)>>),
                 [comment |-> <<Marked("Comment", <<"nested", ToString(i)>>),
                                Marked("Comment", <<"second", ToString(i)>>)>>])
      [] kind = "PostNoComments" ->
           Merge(Marked("SocialMediaPosting", <<"post", ToString(i)>>), [comment |-> <<>>])
      [] OTHER -> Marked(kind, <<"node", ToString(i)>>)

NodeKinds == {"PostWithComments", "PostNoComments", "SocialMediaPosting", "Comment",
              "Article", "NewsArticle", "WebSite"}

Graphs ==
    {[i \in 1..Len(kinds) |-> GraphNode(kinds[i], i)] : kinds \in SeqsUpTo(NodeKinds, MaxNodes)}

FeedUpdateUrl == <<"https://", "www.", "linkedin.com", "/feed/update/", "x">>

GraphUrls ==
    {FeedUpdateUrl,
     <<"https://", "www.", "linkedin.com", "/posts/", "x">>,
     <<"https://", "example.com", "/feed/update/", "x">>,
     <<"https://", "example.com", "/p/slug">>}

InitGraph ==
    /\ pc = "page"
    /\ page \in {[empty |-> FALSE, jsonld |-> g] : g \in Graphs}
    /\ url \in GraphUrls
    /\ out = <<>>
    /\ out2 = <<>>
    /\ item = NoRecord
    /\ md = <<>>
    /\ flags = NoFlags
    /\ ret = NoReturn
    /\ orig = <<>>
    /\ stats = NoStats
    /\ fetched = 0
    /\ pass = 0
    /\ NoBatch
    /\ NoStream

NextGraph == ExtractMetadata

SpecGraph == InitGraph /\ [][NextGraph]_vars

\* the places of the graph whose node is of one of the types
Places(types) == {i \in 1..Len(page.jsonld) : page.jsonld[i]["@type"] \in types}

\* the posts of the graph that carry at least one nested comment
Commented ==
    {i \in Places({"SocialMediaPosting"}) :
        Has(page.jsonld[i], "comment") /\ Len(page.jsonld[i]["comment"]) > 0}

Least(S) == CHOOSE i \in S : \A j \in S : i <= j

PostTypes == {"NewsArticle", "BlogPosting", "SocialMediaPosting",
              "DiscussionForumPosting", "Article"}

\* C21: the target is (1) on a LinkedIn feed/update URL the first nested
\* comment of the first post that has one, (2) else the first top-level
\* Comment, (3) else the first node of an article or post type, (4) else none,
\* and then all five fields are empty.
C21_TargetPriority ==
    pc = "extracted" =>
        IF url = FeedUpdateUrl /\ Commented # {}
        THEN md.author = <<"nested", ToString(Least(Commented))>> /\ md.type = "Comment"
        ELSE IF Places({"Comment"}) # {}
        THEN md.author = <<"node", ToString(Least(Places({"Comment"})))>> /\ md.type = "Comment"
        ELSE IF Places(PostTypes) # {}
        THEN /\ md.author = page.jsonld[Least(Places(PostTypes))]["author"].value
             /\ md.type = page.jsonld[Least(Places(PostTypes))]["@type"]
        ELSE md = [title |-> <<>>, author |-> <<>>, date |-> "", publisher |-> "", type |-> ""]

\* a top-level Comment at place 3 was taken although an article and a post
\* with nested comments precede it, the URL not being a feed/update URL
C21_Witness ==
    /\ pc = "extracted"
    /\ url = <<"https://", "www.", "linkedin.com", "/posts/", "x">>
    /\ Len(page.jsonld) = 3
    /\ page.jsonld[1]["@type"] = "Article"
    /\ Commented = {2}
    /\ md.author = <<"node", "3">>
    /\ md.type = "Comment"

\* ------------------------------------------------------------------
\* The streaming handler, continued

\* C22: process_updates reads the store and processes records only for a
\* topicUpdated message whose topic is the one subscribe() asks for; other
\* topics and other events cause no store read and no store write.
C22_OnlySubscribedTopic ==
    [][(reads' # reads \/ writes' # writes \/ zot' # zot) =>
          /\ event'.event = "topicUpdated"
          /\ event'.topic = SubscriptionTopic]_vars

\* C23: the handler receives messages only on a connection that is open,
\* whose handshake answered "connected" and whose subscription was
\* acknowledged with subscriptionsCreated.
C23_ReceiveOnlySubscribed ==
    pc = "recv" =>
        /\ session.open
        /\ session.handshake = "connected"
        /\ session.ack

\* C24: one call of connect() makes at most max_tries tries: a failed try
\* is followed by another one while fewer than max_tries have failed, and
\* when try max_tries fails the fault leaves connect().
C24_AtMostTenAttempts ==
    /\ [](tries < max_tries)
    /\ [][(pc = "connect" /\ pc' = "connect") =>
            (tries' = tries + 1 /\ tries' < max_tries)]_vars
    /\ [][(pc = "connect" /\ tries = max_tries - 1) =>
            (pc' = "except" \/ (pc' = "subscribe" /\ tries' = 0))]_vars

\* nine tries failed and were retried, the tenth failed and the fault left
\* connect()
C24_Witness ==
    /\ pc = "except"
    /\ tries = max_tries - 1
    /\ ~session.open
    /\ log # <<>>
    /\ log[Len(log)] = "raise"

\* C28: in process_updates a fault on one record of the window does not keep
\* the loop from coming to the other records of the window.
C28_WindowFaultIsolated ==
    [][reads' # reads => reached' = Len(Latest(zot))]_vars

\* C29: a record the handler has written to the store is not written again
\* by a later notification, no one else having modified it.
C29_NoRepeatedWrite ==
    \A i \in 1..Len(writes) : \A j \in 1..Len(writes) :
        (i < j /\ writes[i].ok) => writes[j].key # writes[i].key

\* ------------------------------------------------------------------
\* clean_url, continued

\* the part of a URL before its fragment
BeforeFragment(u) == IF IndexOf(u, "#") = 0 THEN u ELSE Take(u, IndexOf(u, "#") - 1)

\* the decoded (key, value) pairs of the query of a URL, in their order
QueryPairs(u) ==
    LET pre == BeforeFragment(u)
        q == IndexOf(pre, "?")
    IN  parse_qsl(IF q = 0 THEN <<>> ELSE Drop(pre, q))

\* those whose key is not on the denylist
KeptPairs(u) == SelectSeq(QueryPairs(u), LAMBDA p : ~DenylistedKey(p.k))

\* C25: clean_url keeps the parameters that are not on the denylist in their
\* original relative order, also when a key occurs more than once with other
\* keys in between, and leaves no bare "?" when no parameter remains.
C25_KeptParamsInOrder ==
    (pc \in {"cleaned", "recleaned"} /\ urlparse(url).ok) =>
        /\ KeptPairs(out) = KeptPairs(url)
        /\ (QueryPairs(out) = <<>> => IndexOf(BeforeFragment(out), "?") = 0)

\* ------------------------------------------------------------------
\* process_item, continued

\* C26: process_item leaves the record passed in unchanged: after the call
\* the caller's record, its tags list in particular, is what it was before.
C26_CallerRecordUnchanged ==
    (pc = "done" /\ ret.kind # "raise") => item.data = orig

\* C30: a record whose page fetch failed is not given the tag
\* zotero:processed by that pass.
C30_FailedFetchNotTagged ==
    (pc = "done" /\ fetched > 0 /\ page.empty /\ ret.kind = "update"
       /\ ~HasTag(OrigTags, "zotero:processed")) =>
        ~HasTag(RetTags, "zotero:processed")

\* ------------------------------------------------------------------
\* analyze_zotero_library, continued

\* the number of records in the batches the store accepted
RECURSIVE Accepted(_)
Accepted(cs) ==
    IF cs = <<>> THEN 0
    ELSE (IF Head(cs).ok THEN Len(Head(cs).batch) ELSE 0) + Accepted(Tail(cs))

\* C27: at the end of a run that is not a dry run the updated counter is the
\* number of records in the batches the store accepted; the records of a
\* failed flush are counted in errors and not in updated.
C27_UpdatedCountsAccepted ==
    (pc = "complete" /\ ~opts.dry_run) => stats.updated = Accepted(calls)


====
